---- MODULE Spec2Model ----
(***************************************************************************)
(* Array creation routines of xchainer (xchainer/routines/creation.cc).    *)
(*                                                                         *)
(* Every routine is a synchronous call: the model starts idle, one action  *)
(* per routine draws the arguments and runs the whole routine, recording   *)
(* the call, what it returned (or threw) and the requests it issued to the *)
(* Device, in the order the code issues them.                              *)
(*                                                                         *)
(* Scalar values are kept in half units (field v2 is twice the value), so  *)
(* that float scalars can hold 0.5, 1.5, ... while integer scalars hold    *)
(* whole numbers only.  All byte counts of the model stay far below the    *)
(* width of size_t, so no arithmetic of the model wraps.                   *)
(***************************************************************************)
EXTENDS Integers, Sequences, FiniteSets

VARIABLES pc, call, ret, devlog

vars == <<pc, call, ret, devlog>>

-----------------------------------------------------------------------------
(* Bounds of the model *)

\* largest number of dimensions of a shape
MaxNdim == 2
\* largest extent of one dimension
MaxDim == 2
\* largest magnitude of an arbitrary stride, in bytes
MaxStride == 2
\* largest magnitude of the start and step scalars of Arange
MaxVal == 1
\* largest magnitude of the stop scalar of Arange
MaxStop == 3
\* number of computation graphs an array may be connected to
MaxGraphs == 2

-----------------------------------------------------------------------------
(* Dtype, Scalar, Shape, Strides *)

Dtypes == {"Bool", "Int8", "Int16", "Int32", "Int64", "UInt8", "Float32", "Float64"}

GetKind(dtype) ==
    CASE dtype = "Bool" -> "kBool"
      [] dtype \in {"Int8", "Int16", "Int32", "Int64"} -> "kInt"
      [] dtype = "UInt8" -> "kUInt"
      [] OTHER -> "kFloat"

GetElementSize(dtype) ==
    CASE dtype \in {"Bool", "Int8", "UInt8"} -> 1
      [] dtype = "Int16" -> 2
      [] dtype \in {"Int32", "Float32"} -> 4
      [] OTHER -> 8

\* a value of dtype d holding v2 / 2
Representable(d, v2) ==
    CASE GetKind(d) = "kFloat" -> TRUE
      [] GetKind(d) = "kInt" -> v2 % 2 = 0
      [] GetKind(d) = "kUInt" -> v2 % 2 = 0 /\ v2 >= 0
      [] OTHER -> v2 \in {0, 2}

ScalarsUpTo(lim) ==
    {s \in [dtype : Dtypes, v2 : (-2 * lim)..(2 * lim)] : Representable(s.dtype, s.v2)}

\* Scalar{v, dtype} for an integer literal v
MakeScalar(v, dtype) == [dtype |-> dtype, v2 |-> 2 * v]

\* the implicit conversion of an int literal (0, 1) to Scalar
IntLiteral(v) == MakeScalar(v, "Int32")

\* Scalar::operator==: equal only with the same dtype and the same value
ScalarEq(a, b) == a.dtype = b.dtype /\ a.v2 = b.v2

\* static_cast<double>(Scalar), in half units
ToDouble(s) == s.v2

Shapes == UNION {[1..n -> 0..MaxDim] : n \in 0..MaxNdim}

RECURSIVE ProductFrom(_, _)
ProductFrom(shape, i) ==
    IF i > Len(shape) THEN 1 ELSE shape[i] * ProductFrom(shape, i + 1)

\* Shape::GetTotalSize
GetTotalSize(shape) == ProductFrom(shape, 1)

\* Strides{shape, dtype}: the row-major strides of a packed array
StridesOf(shape, dtype) ==
    [i \in 1..Len(shape) |-> GetElementSize(dtype) * ProductFrom(shape, i + 1)]

Abs(x) == IF x < 0 THEN -x ELSE x

Max(a, b) == IF a >= b THEN a ELSE b

\* std::ceil(num / den) for den > 0
Ceil(num, den) == -((-num) \div den)

-----------------------------------------------------------------------------
(* Array and Device *)

GraphIds == 1..MaxGraphs

\* internal::MakeArray: a fresh array, connected to no graph
MakeArray(shape, strides, dtype, data) ==
    [shape |-> shape, strides |-> strides, dtype |-> dtype, graphs |-> {}, data |-> data]

\* requests to the Device, as recorded in devlog
AllocateCall(bytesize) == [call |-> "Allocate", bytesize |-> bytesize]
FromHostMemoryCall(bytesize) == [call |-> "FromHostMemory", bytesize |-> bytesize]
FillCall(value) == [call |-> "Fill", value |-> value]
ArangeCall(start, step) == [call |-> "Arange", start |-> start, step |-> step]
CopyCall == [call |-> "Copy"]

\* what a routine does: how it ended, what it returned, what it asked of the device
Returned(array, log) == [status |-> "ok", out |-> <<array>>, log |-> log]
Thrown(error, log) == [status |-> error, out |-> <<>>, log |-> log]

-----------------------------------------------------------------------------
(* internal::GetRequiredBytes, internal::FromHostData, internal::Empty *)

RECURSIVE SpanFrom(_, _, _)
\* the loop of GetRequiredBytes from dimension i on
SpanFrom(shape, strides, i) ==
    IF i > Len(shape) THEN 0
    ELSE (shape[i] - 1) * Abs(strides[i]) + SpanFrom(shape, strides, i + 1)

RECURSIVE SignedSpanFrom(_, _, _)
SignedSpanFrom(shape, strides, i) ==
    IF i > Len(shape) THEN 0
    ELSE (shape[i] - 1) * strides[i] + SignedSpanFrom(shape, strides, i + 1)

\* a GetRequiredBytes that forgets std::abs
GetRequiredBytesNoAbs(shape, strides, element_size) ==
    IF GetTotalSize(shape) = 0 THEN 0
    ELSE element_size + SignedSpanFrom(shape, strides, 1)

\* a GetRequiredBytes that forgets the early return for an empty shape
GetRequiredBytesNoEmptyCheck(shape, strides, element_size) ==
    element_size + SpanFrom(shape, strides, 1)

GetRequiredBytes(shape, strides, element_size) ==
    IF GetTotalSize(shape) = 0 THEN 0
    ELSE element_size + SpanFrom(shape, strides, 1)

FromHostData(shape, dtype, strides) ==
    LET bytesize == GetRequiredBytes(shape, strides, GetElementSize(dtype))
    IN  Returned(MakeArray(shape, strides, dtype, "host"), <<FromHostMemoryCall(bytesize)>>)

InternalEmpty(shape, dtype, strides) ==
    LET bytesize == GetRequiredBytes(shape, strides, GetElementSize(dtype))
    IN  Returned(MakeArray(shape, strides, dtype, "uninitialized"), <<AllocateCall(bytesize)>>)

-----------------------------------------------------------------------------
(* Empty, Full, Zeros, Ones *)

\* an Empty that requests one byte per element, whatever the dtype
EmptyNoElementSize(shape, dtype) ==
    Returned(MakeArray(shape, StridesOf(shape, dtype), dtype, "uninitialized"),
             <<AllocateCall(GetTotalSize(shape))>>)

Empty(shape, dtype) ==
    LET bytesize == GetTotalSize(shape) * GetElementSize(dtype)
    IN  Returned(MakeArray(shape, StridesOf(shape, dtype), dtype, "uninitialized"),
                 <<AllocateCall(bytesize)>>)

\* Array::Fill on the array a routine returned
Fill(r, fill_value) ==
    Returned([r.out[1] EXCEPT !.data = "filled"], Append(r.log, FillCall(fill_value)))

Full(shape, fill_value, dtype) == Fill(Empty(shape, dtype), fill_value)

FullValueDtype(shape, fill_value) == Full(shape, fill_value, fill_value.dtype)

Zeros(shape, dtype) == Full(shape, IntLiteral(0), dtype)

Ones(shape, dtype) == Full(shape, IntLiteral(1), dtype)

-----------------------------------------------------------------------------
(* Arange *)

\* lines 75-82: the size of the output, from the scalars converted to double
ArangeSize(start, stop, step) ==
    LET swap == ToDouble(step) < 0
        d_start == IF swap THEN ToDouble(stop) ELSE ToDouble(start)
        d_stop == IF swap THEN ToDouble(start) ELSE ToDouble(stop)
        d_step == IF swap THEN -ToDouble(step) ELSE ToDouble(step)
    IN  Max(0, Ceil(d_stop - d_start, d_step))

\* lines 83-89: the boolean check, the allocation and the population
ArangeTail(start, step, size, dtype) ==
    IF size > 2 /\ dtype = "Bool"
    THEN Thrown("DtypeError", <<>>)
    ELSE LET e == Empty(<<size>>, dtype)
         IN  Returned([e.out[1] EXCEPT !.data = "arange"], Append(e.log, ArangeCall(start, step)))

\* an Arange that compares step with the int literal 0; a zero step of another
\* dtype passes, and the size it then computes from a division by zero is 0
ArangeLiteralZeroCheck(start, stop, step, dtype) ==
    IF ScalarEq(step, IntLiteral(0))
    THEN Thrown("XchainerError", <<>>)
    ELSE ArangeTail(start, step,
                    IF ToDouble(step) = 0 THEN 0 ELSE ArangeSize(start, stop, step), dtype)

\* an Arange that rejects a boolean range of size 2 as well
ArangeBoolTooStrict(start, stop, step, dtype) ==
    IF ScalarEq(step, MakeScalar(0, step.dtype))
    THEN Thrown("XchainerError", <<>>)
    ELSE IF ArangeSize(start, stop, step) >= 2 /\ dtype = "Bool"
         THEN Thrown("DtypeError", <<>>)
         ELSE ArangeTail(start, step, ArangeSize(start, stop, step), dtype)

\* an Arange that allocates the output before it checks the boolean size
ArangeAllocatesFirst(start, stop, step, dtype) ==
    IF ScalarEq(step, MakeScalar(0, step.dtype))
    THEN Thrown("XchainerError", <<>>)
    ELSE LET size == ArangeSize(start, stop, step)
             e == Empty(<<size>>, dtype)
         IN  IF size > 2 /\ dtype = "Bool"
             THEN Thrown("DtypeError", e.log)
             ELSE Returned([e.out[1] EXCEPT !.data = "arange"],
                           Append(e.log, ArangeCall(start, step)))

\* an Arange that does not swap start and stop for a negative step
ArangeNoSwap(start, stop, step, dtype) ==
    IF ScalarEq(step, MakeScalar(0, step.dtype))
    THEN Thrown("XchainerError", <<>>)
    ELSE ArangeTail(start, step,
                    Max(0, Ceil(ToDouble(stop) - ToDouble(start), Abs(ToDouble(step)))), dtype)

Arange(start, stop, step, dtype) ==
    IF ScalarEq(step, MakeScalar(0, step.dtype))
    THEN Thrown("XchainerError", <<>>)
    ELSE ArangeTail(start, step, ArangeSize(start, stop, step), dtype)

\* an overload that always takes the dtype of step
ArangeStartStopStepNoPromotion(start, stop, step) ==
    Arange(start, stop, step, step.dtype)

ArangeStartStopStep(start, stop, step) ==
    LET start_stop_any_float ==
            GetKind(start.dtype) = "kFloat" \/ GetKind(stop.dtype) = "kFloat"
    IN  Arange(start, stop, step, IF start_stop_any_float THEN "Float64" ELSE step.dtype)

ArangeStartStopDtype(start, stop, dtype) == Arange(start, stop, IntLiteral(1), dtype)

ArangeStopDtype(stop, dtype) == Arange(IntLiteral(0), stop, IntLiteral(1), dtype)

ArangeStop(stop) == Arange(IntLiteral(0), stop, IntLiteral(1), stop.dtype)

-----------------------------------------------------------------------------
(* EmptyLike, FullLike, ZerosLike, OnesLike, Copy *)

\* an EmptyLike that keeps the layout of the template
EmptyLikeKeepsStrides(a) == InternalEmpty(a.shape, a.dtype, a.strides)

EmptyLike(a) == Empty(a.shape, a.dtype)

FullLike(a, fill_value) == Full(a.shape, fill_value, a.dtype)

ZerosLike(a) == Zeros(a.shape, a.dtype)

OnesLike(a) == Ones(a.shape, a.dtype)

\* Array::AsConstant(graph_ids, CopyKind::kCopy): a packed copy of a that stays
\* connected to the graphs of a, except those named in graph_ids
AsConstant(a, graph_ids) ==
    LET e == EmptyLike(a)
    IN  Returned([e.out[1] EXCEPT !.graphs = a.graphs \ graph_ids, !.data = "copied"],
                 Append(e.log, CopyCall))

\* a Copy that names every graph as one to disconnect
CopyDisconnectsAll(a) == AsConstant(a, GraphIds)

Copy(a) == AsConstant(a, {})

-----------------------------------------------------------------------------
(* The arguments the routines are called with *)

\* arbitrary strides for a shape
StridesFor(shape) == [1..Len(shape) -> (-MaxStride)..MaxStride]

ElementSizes == {GetElementSize(d) : d \in Dtypes}

Reversed(seq) == [i \in 1..Len(seq) |-> seq[Len(seq) + 1 - i]]

\* the layouts of an existing array of this shape and dtype: packed, every axis
\* reversed, every axis padded to twice its stride, column-major (a transposed view)
LayoutsOf(shape, dtype) ==
    LET c == StridesOf(shape, dtype)
    IN  { c,
          [i \in 1..Len(shape) |-> -c[i]],
          [i \in 1..Len(shape) |-> 2 * c[i]],
          Reversed(StridesOf(Reversed(shape), dtype)) }

\* the arrays a routine may be given
Arrays ==
    UNION { { [shape |-> shape, strides |-> strides, dtype |-> dtype,
               graphs |-> graphs, data |-> "filled"] :
              strides \in LayoutsOf(shape, dtype), graphs \in SUBSET GraphIds } :
            <<shape, dtype>> \in Shapes \X Dtypes }

\* Arange(start, stop, step, dtype) reads start and stop only through their
\* conversion to double: they are drawn with one dtype of each kind
KindDtypes == {"Bool", "Int64", "UInt8", "Float64"}

ScalarsOf(dtypes, lim) == {s \in ScalarsUpTo(lim) : s.dtype \in dtypes}

\* the value one, in one dtype of each kind
FillValues == {s \in ScalarsOf(KindDtypes, 1) : s.v2 = 2}

ArangeOps == {"Arange", "ArangeStartStopStep", "ArangeStartStopDtype",
              "ArangeStopDtype", "ArangeStop"}

LikeOps == {"EmptyLike", "FullLike", "ZerosLike", "OnesLike"}

-----------------------------------------------------------------------------
(* The state machine *)

Init ==
    /\ pc = "idle"
    /\ call = [op |-> "none"]
    /\ ret = [status |-> "none", out |-> <<>>]
    /\ devlog = <<>>

\* the routine called with c ran to its end r
Finish(c, r) ==
    /\ pc' = "done"
    /\ call' = c
    /\ ret' = [status |-> r.status, out |-> r.out]
    /\ devlog' = r.log

GetRequiredBytesCall ==
    /\ pc = "idle"
    /\ \E shape \in Shapes : \E strides \in StridesFor(shape) : \E element_size \in ElementSizes :
           Finish([op |-> "GetRequiredBytes", shape |-> shape, strides |-> strides,
                   element_size |-> element_size],
                  [status |-> "ok", out |-> <<GetRequiredBytes(shape, strides, element_size)>>,
                   log |-> <<>>])

FromHostDataCall ==
    /\ pc = "idle"
    /\ \E shape \in Shapes : \E dtype \in Dtypes : \E strides \in LayoutsOf(shape, dtype) :
           Finish([op |-> "FromHostData", shape |-> shape, dtype |-> dtype, strides |-> strides],
                  FromHostData(shape, dtype, strides))

InternalEmptyCall ==
    /\ pc = "idle"
    /\ \E shape \in Shapes : \E dtype \in Dtypes : \E strides \in LayoutsOf(shape, dtype) :
           Finish([op |-> "InternalEmpty", shape |-> shape, dtype |-> dtype, strides |-> strides],
                  InternalEmpty(shape, dtype, strides))

EmptyCall ==
    /\ pc = "idle"
    /\ \E shape \in Shapes : \E dtype \in Dtypes :
           Finish([op |-> "Empty", shape |-> shape, dtype |-> dtype], Empty(shape, dtype))

FullCall ==
    /\ pc = "idle"
    /\ \E shape \in Shapes : \E fill_value \in FillValues : \E dtype \in Dtypes :
           Finish([op |-> "Full", shape |-> shape, fill_value |-> fill_value, dtype |-> dtype],
                  Full(shape, fill_value, dtype))

FullValueDtypeCall ==
    /\ pc = "idle"
    /\ \E shape \in Shapes : \E fill_value \in FillValues :
           Finish([op |-> "FullValueDtype", shape |-> shape, fill_value |-> fill_value],
                  FullValueDtype(shape, fill_value))

ZerosCall ==
    /\ pc = "idle"
    /\ \E shape \in Shapes : \E dtype \in Dtypes :
           Finish([op |-> "Zeros", shape |-> shape, dtype |-> dtype], Zeros(shape, dtype))

OnesCall ==
    /\ pc = "idle"
    /\ \E shape \in Shapes : \E dtype \in Dtypes :
           Finish([op |-> "Ones", shape |-> shape, dtype |-> dtype], Ones(shape, dtype))

ArangeCallFull ==
    /\ pc = "idle"
    /\ \E start \in ScalarsOf(KindDtypes, MaxVal) : \E stop \in ScalarsOf(KindDtypes, MaxStop) :
       \E step \in ScalarsUpTo(MaxVal) : \E dtype \in Dtypes :
           Finish([op |-> "Arange", start |-> start, stop |-> stop, step |-> step, dtype |-> dtype],
                  Arange(start, stop, step, dtype))

ArangeStartStopStepCall ==
    /\ pc = "idle"
    /\ \E start \in ScalarsUpTo(MaxVal) : \E stop \in ScalarsUpTo(MaxStop) :
       \E step \in ScalarsUpTo(MaxVal) :
           Finish([op |-> "ArangeStartStopStep", start |-> start, stop |-> stop, step |-> step],
                  ArangeStartStopStep(start, stop, step))

ArangeStartStopDtypeCall ==
    /\ pc = "idle"
    /\ \E start \in ScalarsUpTo(MaxVal) : \E stop \in ScalarsUpTo(MaxStop) : \E dtype \in Dtypes :
           Finish([op |-> "ArangeStartStopDtype", start |-> start, stop |-> stop, dtype |-> dtype],
                  ArangeStartStopDtype(start, stop, dtype))

ArangeStopDtypeCall ==
    /\ pc = "idle"
    /\ \E stop \in ScalarsUpTo(MaxStop) : \E dtype \in Dtypes :
           Finish([op |-> "ArangeStopDtype", stop |-> stop, dtype |-> dtype],
                  ArangeStopDtype(stop, dtype))

ArangeStopCall ==
    /\ pc = "idle"
    /\ \E stop \in ScalarsUpTo(MaxStop) :
           Finish([op |-> "ArangeStop", stop |-> stop], ArangeStop(stop))

EmptyLikeCall ==
    /\ pc = "idle"
    /\ \E a \in Arrays : Finish([op |-> "EmptyLike", a |-> a], EmptyLike(a))

FullLikeCall ==
    /\ pc = "idle"
    /\ \E a \in Arrays : \E fill_value \in FillValues :
           Finish([op |-> "FullLike", a |-> a, fill_value |-> fill_value], FullLike(a, fill_value))

ZerosLikeCall ==
    /\ pc = "idle"
    /\ \E a \in Arrays : Finish([op |-> "ZerosLike", a |-> a], ZerosLike(a))

OnesLikeCall ==
    /\ pc = "idle"
    /\ \E a \in Arrays : Finish([op |-> "OnesLike", a |-> a], OnesLike(a))

CopyCallOf ==
    /\ pc = "idle"
    /\ \E a \in Arrays : Finish([op |-> "Copy", a |-> a], Copy(a))

Next ==
    \/ GetRequiredBytesCall
    \/ FromHostDataCall
    \/ InternalEmptyCall
    \/ EmptyCall
    \/ FullCall
    \/ FullValueDtypeCall
    \/ ZerosCall
    \/ OnesCall
    \/ ArangeCallFull
    \/ ArangeStartStopStepCall
    \/ ArangeStartStopDtypeCall
    \/ ArangeStopDtypeCall
    \/ ArangeStopCall
    \/ EmptyLikeCall
    \/ FullLikeCall
    \/ ZerosLikeCall
    \/ OnesLikeCall
    \/ CopyCallOf

Spec == Init /\ [][Next]_vars

-----------------------------------------------------------------------------
(* What the properties below are stated with *)

Done(ops) == pc = "done" /\ call.op \in ops

RECURSIVE SumSeq(_)
SumSeq(seq) == IF seq = <<>> THEN 0 ELSE Head(seq) + SumSeq(Tail(seq))

Magnitude(x) == IF x >= 0 THEN x ELSE 0 - x

HasZeroDim(shape) == \E i \in 1..Len(shape) : shape[i] = 0

\* elementSize + sum over i of (shape[i] - 1) * |strides[i]|
FootprintFormula(shape, strides, element_size) ==
    element_size + SumSeq([i \in 1..Len(shape) |-> (shape[i] - 1) * Magnitude(strides[i])])

\* the index tuples of the elements of an array of this shape
IndexTuples(shape) ==
    {idx \in [1..Len(shape) -> 0..MaxDim] : \A i \in 1..Len(shape) : idx[i] < shape[i]}

\* the byte offsets of the elements, relative to the array's origin
ElementOffsets(shape, strides) ==
    {SumSeq([i \in 1..Len(shape) |-> idx[i] * strides[i]]) : idx \in IndexTuples(shape)}

Lowest(S) == CHOOSE x \in S : \A y \in S : x <= y
Highest(S) == CHOOSE x \in S : \A y \in S : x >= y

\* the layout a routine computed a footprint for, and the footprint
LayoutOps == {"GetRequiredBytes", "InternalEmpty", "FromHostData"}
LayoutElementSize ==
    IF call.op = "GetRequiredBytes" THEN call.element_size ELSE GetElementSize(call.dtype)
LayoutBytes == IF call.op = "GetRequiredBytes" THEN ret.out[1] ELSE devlog[1].bytesize

\* the start, stop and step of an Arange call, with the defaults start = 0, step = 1
ArgStart(c) ==
    IF c.op \in {"ArangeStopDtype", "ArangeStop"} THEN [dtype |-> "Int32", v2 |-> 0] ELSE c.start
ArgStop(c) == c.stop
ArgStep(c) ==
    IF c.op \in {"Arange", "ArangeStartStopStep"} THEN c.step ELSE [dtype |-> "Int32", v2 |-> 2]

IsFloat(dtype) == dtype \in {"Float32", "Float64"}

\* the dtype-inference rule: float64 if start or stop is a float, else the dtype of step
RuleDtype(start, stop, step) ==
    IF IsFloat(start.dtype) \/ IsFloat(stop.dtype) THEN "Float64" ELSE step.dtype

\* the dtype an Arange call resolves to
ResolvedDtype(c) ==
    CASE c.op = "ArangeStartStopStep" -> RuleDtype(c.start, c.stop, c.step)
      [] c.op = "ArangeStop" -> c.stop.dtype
      [] OTHER -> c.dtype

\* the least integer n with n >= num / den, for den > 0
CeilOfRatio(num, den) ==
    CHOOSE n \in (0 - Magnitude(num))..Magnitude(num) : n * den >= num /\ (n - 1) * den < num

\* max(0, ceil((stop' - start') / step')) over the direction-normalised values
LengthFormula(start, stop, step) ==
    LET n == IF step.v2 > 0
             THEN CeilOfRatio(stop.v2 - start.v2, step.v2)
             ELSE CeilOfRatio(start.v2 - stop.v2, 0 - step.v2)
    IN  IF n > 0 THEN n ELSE 0

Negated(s) == [s EXCEPT !.v2 = 0 - s.v2]

\* strides that are row-major and packed for this shape and element size
IsRowMajor(shape, strides, element_size) ==
    /\ Len(strides) = Len(shape)
    /\ \A i \in 1..Len(shape) :
           strides[i] = IF i = Len(shape) THEN element_size ELSE strides[i + 1] * shape[i + 1]

RECURSIVE ProductSeq(_)
ProductSeq(seq) == IF seq = <<>> THEN 1 ELSE Head(seq) * ProductSeq(Tail(seq))

\* the number of elements of an array of this shape
NumElements(shape) == ProductSeq(shape)

-----------------------------------------------------------------------------
(* Properties *)

\* C1: GetRequiredBytes returns 0 when a dimension of the shape is 0, whatever the
\* strides, and otherwise element_size + sum of (shape[i] - 1) * |strides[i]|; a
\* zero-dimensional shape gives element_size and the sign of a stride does not matter.
C1_RequiredBytesFormula ==
    Done({"GetRequiredBytes"}) =>
        /\ HasZeroDim(call.shape) => ret.out[1] = 0
        /\ ~HasZeroDim(call.shape) =>
               ret.out[1] = FootprintFormula(call.shape, call.strides, call.element_size)
        /\ call.shape = <<>> => ret.out[1] = call.element_size
        /\ ret.out[1] = GetRequiredBytes(call.shape, [i \in 1..Len(call.shape) |-> 0 - call.strides[i]],
                                         call.element_size)

C1_Witness ==
    /\ Done({"GetRequiredBytes"})
    /\ Len(call.shape) = 2 /\ ~HasZeroDim(call.shape)
    /\ call.strides[1] < 0 /\ call.strides[2] > 0
    /\ ret.out[1] > call.element_size

\* C2: for a non-empty shape the footprint is the distance from the lowest to the
\* highest element offset plus one element, so every element lies inside a block of
\* that size starting at the lowest element, and the highest element ends the block.
C2_MinimalFootprint ==
    (Done(LayoutOps) /\ ~HasZeroDim(call.shape)) =>
        LET offs == ElementOffsets(call.shape, call.strides)
            lo == Lowest(offs)
            hi == Highest(offs)
        IN  /\ LayoutBytes = (hi - lo) + LayoutElementSize
            /\ \A o \in offs : o - lo >= 0 /\ (o - lo) + LayoutElementSize <= LayoutBytes
            /\ \E o \in offs : (o - lo) + LayoutElementSize = LayoutBytes

C2_Witness ==
    /\ Done({"InternalEmpty"})
    /\ Len(call.shape) = 2 /\ NumElements(call.shape) > 2
    /\ \A i \in 1..2 : call.strides[i] < 0
    /\ devlog[1].bytesize = NumElements(call.shape) * GetElementSize(call.dtype)

\* C3: an Arange whose step is zero throws the zero-step error and returns no array,
\* for every dtype of step and every output dtype, boolean included.
C3_ZeroStepRejected ==
    (Done(ArangeOps) /\ ArgStep(call).v2 = 0) =>
        ret.status = "XchainerError" /\ ret.out = <<>>

C3_Witness ==
    /\ Done({"Arange"})
    /\ call.step = [dtype |-> "Float32", v2 |-> 0]
    /\ call.dtype = "Bool"
    /\ ret.status = "XchainerError"

\* C4: with a non-zero step, an Arange fails with the boolean-length error exactly
\* when its dtype is boolean and its length is greater than 2; otherwise it succeeds.
C4_BoolLength ==
    (Done(ArangeOps) /\ ArgStep(call).v2 # 0) =>
        LET length == LengthFormula(ArgStart(call), ArgStop(call), ArgStep(call))
        IN  /\ ret.status \in {"ok", "DtypeError"}
            /\ ret.status = "DtypeError" <=> (ResolvedDtype(call) = "Bool" /\ length > 2)

C4_Witness ==
    /\ Done({"ArangeStopDtype"})
    /\ call.stop.v2 = 6 /\ call.dtype = "Bool"
    /\ ret.status = "DtypeError"

\* C5: an Arange that throws has issued no request to the device; a successful one
\* has issued exactly one Allocate and then exactly one Arange request.
C5_ValidationBeforeAllocation ==
    Done(ArangeOps) =>
        /\ ret.status # "ok" => devlog = <<>>
        /\ ret.status = "ok" =>
               /\ Len(devlog) = 2
               /\ devlog[1].call = "Allocate"
               /\ devlog[2].call = "Arange"

C5_Witness ==
    /\ Done(ArangeOps)
    /\ ret.status = "DtypeError"
    /\ devlog = <<>>

\* C6: a successful Arange returns an array of shape [length] with
\* length = max(0, ceil((stop' - start') / step')) over the normalised values, which
\* is also the length of the mirrored range Arange(stop, start, -step).
C6_Length ==
    (Done(ArangeOps) /\ ret.status = "ok") =>
        LET length == LengthFormula(ArgStart(call), ArgStop(call), ArgStep(call))
        IN  /\ ret.out[1].shape = <<length>>
            /\ devlog[1] = AllocateCall(length * GetElementSize(ret.out[1].dtype))
            /\ ArangeSize(ArgStop(call), ArgStart(call), Negated(ArgStep(call))) = length

C6_Witness ==
    /\ Done({"Arange"})
    /\ call.step.v2 < 0
    /\ ret.status = "ok"
    /\ ret.out[1].shape = <<4>>

\* C7 as stated: every overload without an explicit dtype, the stop-only one
\* included, resolves the dtype by the inference rule.
C7_InferenceRuleEverywhere ==
    (Done({"ArangeStartStopStep", "ArangeStop"}) /\ ret.status = "ok") =>
        ret.out[1].dtype = RuleDtype(ArgStart(call), ArgStop(call), ArgStep(call))

\* C7: Arange(start, stop, step) resolves the dtype by the inference rule, and
\* the stop-only Arange(stop) resolves it to the dtype of stop.
C7_InferredDtype ==
    /\ (Done({"ArangeStartStopStep"}) /\ ret.status = "ok") =>
           ret.out[1].dtype = RuleDtype(call.start, call.stop, call.step)
    /\ (Done({"ArangeStop"}) /\ ret.status = "ok") =>
           ret.out[1].dtype = call.stop.dtype

C7_Witness ==
    /\ Done({"ArangeStop"})
    /\ call.stop.dtype = "Float32"
    /\ ret.status = "ok"
    /\ ret.out[1].dtype = "Float32"

C9_LikeIsContiguous ==
    Done(LikeOps) =>
        /\ ret.status = "ok"
        /\ ret.out[1].shape = call.a.shape
        /\ ret.out[1].dtype = call.a.dtype
        /\ IsRowMajor(call.a.shape, ret.out[1].strides, GetElementSize(call.a.dtype))
        /\ devlog[1] = AllocateCall(NumElements(call.a.shape) * GetElementSize(call.a.dtype))

C9_Witness ==
    /\ Done(LikeOps)
    /\ Len(call.a.shape) = 2 /\ ~HasZeroDim(call.a.shape)
    /\ ~IsRowMajor(call.a.shape, call.a.strides, GetElementSize(call.a.dtype))
    /\ IsRowMajor(call.a.shape, ret.out[1].strides, GetElementSize(call.a.dtype))

\* C10: the bytes Empty(shape, dtype) requests from the device equal
\* GetRequiredBytes of the shape with its row-major strides.
C10_EmptyMatchesRequiredBytes ==
    Done({"Empty"}) =>
        /\ Len(devlog) = 1
        /\ devlog[1].call = "Allocate"
        /\ devlog[1].bytesize =
               GetRequiredBytes(call.shape, ret.out[1].strides, GetElementSize(call.dtype))
        /\ IsRowMajor(call.shape, ret.out[1].strides, GetElementSize(call.dtype))

C10_Witness ==
    /\ Done({"Empty"})
    /\ Len(call.shape) = 2 /\ call.shape[1] = 1 /\ call.shape[2] > 1
    /\ devlog[1].bytesize = call.shape[2] * GetElementSize(call.dtype)
    /\ GetElementSize(call.dtype) > 1

====
